---- MODULE Spec2Model ----
(***************************************************************************)
(* A model of classic-to-indev's main.rs: one process run drives            *)
(* config bootstrap -> directory preparation -> input resolution ->         *)
(* read_level -> classic_to_js -> serialize_data -> delivery, against a     *)
(* file system that outlives the run.                                       *)
(*                                                                          *)
(* Text (the content of config.toml, folder names, paths) is a sequence of  *)
(* tokens.  A token is one of the punctuation characters below or a word:   *)
(* a maximal run of characters holding none of them.  Blanks around "="     *)
(* carry no meaning in TOML and are not represented.                        *)
(***************************************************************************)
EXTENDS Integers, Sequences, FiniteSets, TLC

NL == "\n"
QUOTE == "\""
LBRACK == "["
RBRACK == "]"
EQUALS == "="
HYPHEN == "-"
UNDERSCORE == "_"
SLASH == "/"

\* Words made of ASCII letters only: with "-" and "_" they form TOML bare keys.
LetterWords ==
    {"input", "output", "settings", "folder", "file", "mode", "website",
     "my", "worlds", "out"}

\* Words made of ASCII digits only, with the integer each one denotes.
NumVal ==
    [w \in {"0", "1", "2", "255", "256"} |->
        CASE w = "0" -> 0
          [] w = "1" -> 1
          [] w = "2" -> 2
          [] w = "255" -> 255
          [] w = "256" -> 256]

DigitWords == DOMAIN NumVal

\* ---------------------------------------------------------------------
\* Program constants (main.rs 13-18)

INPUT_FOLDER == <<"input">>
INPUT_FILE == <<"level.dat">>
OUTPUT_MODE == 0
OUTPUT_FOLDER == <<"output">>
OUTPUT_FILE == <<"localStorage.js">>
OUTPUT_WEBSITE == <<"https:", SLASH, SLASH, "classic.minecraft.net">>

\* The range of the u8 field Output.output_mode.
U8Max == 255

\* format!("{OUTPUT_MODE}"): the decimal digits of the constant.
FormatU8(n) == CHOOSE w \in DigitWords : NumVal[w] = n

\* ---------------------------------------------------------------------
\* str::replace(from, to) with one-character patterns: every occurrence
\* of the character `from`, wherever it stands in the text, becomes `to`.

\* As replacen(from, to, 1) would: the first occurrence only.
replaceFirst(text, from, to) ==
    [i \in 1..Len(text) |->
        IF text[i] = from /\ \A j \in 1..(i - 1) : text[j] # from THEN to ELSE text[i]]

replace(text, from, to) ==
    [i \in 1..Len(text) |-> IF text[i] = from THEN to ELSE text[i]]

\* ---------------------------------------------------------------------
\* toml::from_str::<Config>, for the TOML subset the texts of this model
\* use: table headers [name], lines key = "basic string" and
\* key = integer, blank lines.  Escapes, comments, dotted keys, arrays,
\* inline tables and digit-group underscores do not occur in them.

RECURSIVE SplitLines(_)
SplitLines(text) ==
    IF \A i \in 1..Len(text) : text[i] # NL
    THEN <<text>>
    ELSE LET k == CHOOSE i \in 1..Len(text) :
                     text[i] = NL /\ \A j \in 1..(i - 1) : text[j] # NL
         IN  <<SubSeq(text, 1, k - 1)>> \o SplitLines(SubSeq(text, k + 1, Len(text)))

IsBareKey(toks) ==
    /\ Len(toks) > 0
    /\ \A i \in 1..Len(toks) :
           toks[i] \in LetterWords \cup DigitWords \cup {HYPHEN, UNDERSCORE}

BadValue == [t |-> "bad"]

ParseValue(toks) ==
    IF /\ Len(toks) >= 2
       /\ toks[1] = QUOTE
       /\ toks[Len(toks)] = QUOTE
       /\ \A i \in 2..(Len(toks) - 1) : toks[i] # QUOTE
    THEN [t |-> "str", s |-> SubSeq(toks, 2, Len(toks) - 1)]
    ELSE IF Len(toks) = 1 /\ toks[1] \in DigitWords
    THEN [t |-> "int", n |-> NumVal[toks[1]]]
    ELSE IF Len(toks) = 2 /\ toks[1] = HYPHEN /\ toks[2] \in DigitWords
    THEN [t |-> "int", n |-> 0 - NumVal[toks[2]]]
    ELSE BadValue

ParseLine(line) ==
    IF Len(line) = 0
    THEN [kind |-> "blank"]
    ELSE IF line[1] = LBRACK
    THEN IF /\ line[Len(line)] = RBRACK
            /\ IsBareKey(SubSeq(line, 2, Len(line) - 1))
         THEN [kind |-> "table", name |-> SubSeq(line, 2, Len(line) - 1)]
         ELSE [kind |-> "bad"]
    ELSE IF \E i \in 1..Len(line) : line[i] = EQUALS
    THEN LET k == CHOOSE i \in 1..Len(line) :
                      line[i] = EQUALS /\ \A j \in 1..(i - 1) : line[j] # EQUALS
             key == SubSeq(line, 1, k - 1)
             val == ParseValue(SubSeq(line, k + 1, Len(line)))
         IN  IF IsBareKey(key) /\ val # BadValue
             THEN [kind |-> "kv", key |-> key, val |-> val]
             ELSE [kind |-> "bad"]
    ELSE [kind |-> "bad"]

\* The root table is named by the empty sequence.
RootTable == << >>

EmptyDoc == [ok |-> TRUE, cur |-> RootTable, tables |-> {}, entries |-> {}]

\* One line added to the document read so far: a table or a key defined
\* twice is an error, as is a malformed line.
AddLine(doc, line) ==
    LET p == ParseLine(line)
    IN  IF ~doc.ok THEN doc
        ELSE IF p.kind = "blank" THEN doc
        ELSE IF p.kind = "table"
        THEN IF \/ p.name \in doc.tables
                \/ \E e \in doc.entries : e.tab = RootTable /\ e.key = p.name
             THEN [doc EXCEPT !.ok = FALSE]
             ELSE [doc EXCEPT !.cur = p.name, !.tables = @ \cup {p.name}]
        ELSE IF p.kind = "kv"
        THEN IF \/ \E e \in doc.entries : e.tab = doc.cur /\ e.key = p.key
                \/ doc.cur = RootTable /\ p.key \in doc.tables
             THEN [doc EXCEPT !.ok = FALSE]
             ELSE [doc EXCEPT !.entries =
                      @ \cup {[tab |-> doc.cur, key |-> p.key, val |-> p.val]}]
        ELSE [doc EXCEPT !.ok = FALSE]

RECURSIVE ReadDoc(_, _)
ReadDoc(doc, lines) ==
    IF Len(lines) = 0 THEN doc
    ELSE ReadDoc(AddLine(doc, Head(lines)), Tail(lines))

\* The names serde derives from the structs Config, Input and Output.
Name2(a, b) == <<a, UNDERSCORE, b>>

HasField(doc, tab, key, type) ==
    /\ tab \in doc.tables
    /\ \E e \in doc.entries : e.tab = tab /\ e.key = key /\ e.val.t = type

Field(doc, tab, key) ==
    (CHOOSE e \in doc.entries : e.tab = tab /\ e.key = key).val

ParseError == [ok |-> FALSE]

\* Fields the structs do not name are ignored; a missing field, a field
\* of the wrong type and an integer outside u8 are errors.
from_str(text) ==
    LET doc == ReadDoc(EmptyDoc, SplitLines(text))
        inp == Name2("input", "settings")
        out == Name2("output", "settings")
    IN  IF /\ doc.ok
           /\ HasField(doc, inp, Name2("input", "folder"), "str")
           /\ HasField(doc, inp, Name2("input", "file"), "str")
           /\ HasField(doc, out, Name2("output", "mode"), "int")
           /\ Field(doc, out, Name2("output", "mode")).n \in 0..U8Max
           /\ HasField(doc, out, Name2("output", "folder"), "str")
           /\ HasField(doc, out, Name2("output", "file"), "str")
           /\ HasField(doc, out, Name2("output", "website"), "str")
        THEN [ok |-> TRUE,
              config |->
                [input_settings |->
                    [input_folder |-> Field(doc, inp, Name2("input", "folder")).s,
                     input_file |-> Field(doc, inp, Name2("input", "file")).s],
                 output_settings |->
                    [output_mode |-> Field(doc, out, Name2("output", "mode")).n,
                     output_folder |-> Field(doc, out, Name2("output", "folder")).s,
                     output_file |-> Field(doc, out, Name2("output", "file")).s,
                     output_website |-> Field(doc, out, Name2("output", "website")).s]]]
        ELSE ParseError

\* main.rs 70-71: the text of config.toml with every "-" replaced by "_",
\* then parsed.
LoadConfig(text) == from_str(replace(text, HYPHEN, UNDERSCORE))


\* ---------------------------------------------------------------------
\* build_settings (main.rs 140-160): the thirteen buffers handed to
\* file.write, in order.

KeyLine(a, b, value) == <<a, HYPHEN, b, EQUALS>> \o value

Quoted(s) == <<QUOTE>> \o s \o <<QUOTE>>

Chunks ==
    << <<LBRACK, "input", HYPHEN, "settings", RBRACK, NL>>,
       KeyLine("input", "folder", Quoted(INPUT_FOLDER)),
       <<NL>>,
       KeyLine("input", "file", Quoted(INPUT_FILE)),
       <<NL, NL>>,
       <<LBRACK, "output", HYPHEN, "settings", RBRACK, NL>>,
       KeyLine("output", "mode", <<FormatU8(OUTPUT_MODE)>>),
       <<NL>>,
       KeyLine("output", "folder", Quoted(OUTPUT_FOLDER)),
       <<NL>>,
       KeyLine("output", "file", Quoted(OUTPUT_FILE)),
       <<NL>>,
       KeyLine("output", "website", Quoted(OUTPUT_WEBSITE)) >>

RECURSIVE Concat(_)
Concat(seqs) == IF Len(seqs) = 0 THEN << >> ELSE Head(seqs) \o Concat(Tail(seqs))

\* The text config.toml holds when every write wrote its whole buffer.
DefaultPayload == Concat(Chunks)

\* Write::write may accept fewer bytes than it is given and still return
\* Ok; build_settings drops the count.  `short` maps the indices of the
\* writes that did so to the number of tokens each accepted; the writes
\* 1..n returned Ok.
Written(n, short) ==
    Concat([i \in 1..n |->
              IF i \in DOMAIN short THEN SubSeq(Chunks[i], 1, short[i]) ELSE Chunks[i]])

\* ---------------------------------------------------------------------
\* Bounds of the model.

\* Process runs against the same file system.
MaxRuns == 2

\* Writes of one build_settings call that accept only part of their buffer.
MaxShortWrites == 1

\* ---------------------------------------------------------------------
\* The inputs: the config.toml a user may have left behind, the folders
\* and the save files.

\* A configuration file whose section names are spelled with `secSep` and
\* whose keys with `keySep`.
ConfigText(secSep, keySep, inFolder, mode, outFolder, website) ==
    << LBRACK, "input", secSep, "settings", RBRACK, NL,
       "input", keySep, "folder", EQUALS >> \o Quoted(inFolder) \o
    << NL, "input", keySep, "file", EQUALS >> \o Quoted(INPUT_FILE) \o
    << NL, NL, LBRACK, "output", secSep, "settings", RBRACK, NL,
       "output", keySep, "mode", EQUALS >> \o mode \o
    << NL, "output", keySep, "folder", EQUALS >> \o Quoted(outFolder) \o
    << NL, "output", keySep, "file", EQUALS >> \o Quoted(OUTPUT_FILE) \o
    << NL, "output", keySep, "website", EQUALS >> \o Quoted(website)

InFolders == {INPUT_FOLDER, <<"my", HYPHEN, "worlds">>}

OutFolders == {OUTPUT_FOLDER, INPUT_FOLDER}

Websites == {OUTPUT_WEBSITE, <<"https:", SLASH, SLASH, "my", HYPHEN, "site.test">>}

ModeTexts == {<<"0">>, <<"1">>, <<"2">>, <<"255">>, <<"256">>, <<HYPHEN, "1">>}

WellFormedTexts ==
    {ConfigText(s, k, i, m, o, w) :
        s \in {HYPHEN, UNDERSCORE}, k \in {HYPHEN, UNDERSCORE},
        i \in InFolders, m \in ModeTexts, o \in OutFolders, w \in Websites}

\* Texts the parser rejects or reads in part: a key given in both
\* spellings, a key the structs do not name, a string where the mode
\* belongs, and a line that is no TOML.
OddTexts ==
    { DefaultPayload \o <<NL, "output", UNDERSCORE, "website", EQUALS>> \o Quoted(<<"out">>),
      DefaultPayload \o <<NL, "my", HYPHEN, "mode", EQUALS, "2">>,
      ConfigText(HYPHEN, HYPHEN, INPUT_FOLDER, Quoted(<<"0">>), OUTPUT_FOLDER, OUTPUT_WEBSITE),
      DefaultPayload \o <<NL, "my", "worlds">> }

ConfigTexts == WellFormedTexts \cup OddTexts

\* What a save file holds: a world read_level decodes, or bytes it rejects.
Worlds == {"world_a", "world_b"}
Corrupt == "corrupt"

\* The content of a path that may hold a file.
NoFile == [present |-> FALSE, text |-> << >>]
File(text) == [present |-> TRUE, text |-> text]

CONFIG_PATH == <<"config.toml">>

\* folder + "/" + file (main.rs 87, 88, 90, 124)
JoinPath(folder, file) == folder \o <<SLASH>> \o file

\* Every folder name a configuration of the model can load.
AllFolders == {replace(f, HYPHEN, UNDERSCORE) : f \in InFolders \cup OutFolders}

\* ---------------------------------------------------------------------
\* State.

VARIABLES
    cfgFile,      \* file system: the text of config.toml, or NoFile
    dirs,         \* file system: the directories that exist
    files,        \* file system: save files, path -> content
    outputs,      \* file system: what the delivery writers left, and in which run
    run,          \* number of the process run
    cfgAtStart,   \* cfgFile as the run found it
    pc,           \* position of the run in main
    config,       \* `config` (main.rs 71)
    classic,      \* `classic` (main.rs 90)
    js,           \* `js` (main.rs 99)
    serialized,   \* `serialized` (main.rs 108)
    calls,        \* the calls the run has made, in order
    err,          \* the GeneralError handed to throw
    diags,        \* lines throw has printed to the error stream
    prompts,      \* "Press Enter to Exit" lines printed
    acks,         \* lines read from standard input
    exit          \* << >> while running, <<status>> once the process ended

fsVars == <<cfgFile, dirs, files, outputs>>
procVars == <<run, cfgAtStart, pc, config, classic, js, serialized, calls, err,
              diags, prompts, acks, exit>>
vars == <<fsVars, procVars>>

None == [kind |-> "none"]

\* The variants of GeneralError (main.rs 40-62); `arg` is the path of
\* MissingFile and the value of InvalidMode, and empty for the variants
\* that wrap a collaborator's error.
Error(kind, arg) == [kind |-> kind, arg |-> arg]

\* std::fs::exists on a path of the model's file system.
PathExists(path) ==
    \/ path = CONFIG_PATH /\ cfgFile # NoFile
    \/ path \in dirs
    \/ path \in DOMAIN files

\* One call of the run: the stage of main it belongs to, the function
\* called, its arguments and what it returned ("ok" or "err" for a Result,
\* "true" or "false" for the Ok of fs::exists).
Call(stage, op, args, ret) == [stage |-> stage, op |-> op, args |-> args, ret |-> ret]

\* The state of a process as main is entered.
ProcessStart(r, cfg) ==
    /\ run' = r
    /\ cfgAtStart' = cfg
    /\ pc' = "check_config"
    /\ config' = None
    /\ classic' = None
    /\ js' = None
    /\ serialized' = << >>
    /\ calls' = << >>
    /\ err' = None
    /\ diags' = 0
    /\ prompts' = 0
    /\ acks' = 0
    /\ exit' = << >>

Init ==
    /\ cfgFile \in {NoFile} \cup {File(t) : t \in ConfigTexts}
    /\ dirs \in {{}, AllFolders}
    /\ files \in {<< >>} \cup
                 {[p \in {JoinPath(d, INPUT_FILE)} |-> c] :
                      d \in dirs, c \in Worlds \cup {Corrupt}}
    /\ outputs = {}
    /\ run = 1
    /\ cfgAtStart = cfgFile
    /\ pc = "check_config"
    /\ config = None
    /\ classic = None
    /\ js = None
    /\ serialized = << >>
    /\ calls = << >>
    /\ err = None
    /\ diags = 0
    /\ prompts = 0
    /\ acks = 0
    /\ exit = << >>

\* A panic (unwrap or expect on an Err): the runtime prints its own
\* message and the process ends with status 101, without a prompt.
Panic(newCalls) ==
    /\ pc' = "panicked"
    /\ exit' = <<101>>
    /\ calls' = calls \o newCalls
    /\ UNCHANGED <<run, cfgAtStart, config, classic, js, serialized, err,
                   diags, prompts, acks>>

\* A call site of throw(e): control passes to throw with e.
Raise(e, newCalls) ==
    /\ pc' = "throw"
    /\ err' = e
    /\ calls' = calls \o newCalls
    /\ UNCHANGED <<run, cfgAtStart, config, classic, js, serialized,
                   diags, prompts, acks, exit>>

\* Control moves on to the next statement of main.
Goto(next, newCalls) ==
    /\ pc' = next
    /\ calls' = calls \o newCalls
    /\ UNCHANGED <<run, cfgAtStart, err, diags, prompts, acks, exit>>

IoResults == {"ok", "err"}

\* ---------------------------------------------------------------------
\* main, statement by statement.

\* The results of fs::exists(path): Ok(whether the path exists) or Err.
ExistsResults(path) == {IF PathExists(path) THEN "true" ELSE "false", "err"}

\* main.rs 66: fs::exists("config.toml").unwrap()
CheckConfig ==
    /\ pc = "check_config"
    /\ \E r \in ExistsResults(CONFIG_PATH) :
         LET c == <<Call("bootstrap", "exists", <<CONFIG_PATH>>, r)>>
         IN  IF r = "err" THEN Panic(c)
             ELSE /\ Goto(IF r = "true" THEN "load_config" ELSE "build_settings", c)
                  /\ UNCHANGED <<config, classic, js, serialized>>
    /\ UNCHANGED fsVars

\* The sets of writes that may come up short among the first n.
ShortSets(n) == {S \in SUBSET (1..n) : Cardinality(S) <= MaxShortWrites}

ShortLengths(S) ==
    {f \in [S -> 0..Len(DefaultPayload)] : \A i \in S : f[i] < Len(Chunks[i])}

\* main.rs 67 and build_settings (140-160): open for append, creating the
\* file; then the thirteen writes.  The `?` returns the first Err, which
\* main hands to throw.
BuildSettings ==
    /\ pc = "build_settings"
    /\ \E open \in IoResults :
         IF open = "err"
         THEN /\ Panic(<<Call("bootstrap", "open", <<CONFIG_PATH>>, "err")>>)
              /\ UNCHANGED cfgFile
         ELSE \E n \in 0..Len(Chunks) : \E S \in ShortSets(n) :
                \E short \in ShortLengths(S) :
                  /\ cfgFile' = File(cfgFile.text \o Written(n, short))
                  /\ IF n = Len(Chunks)
                     THEN /\ Goto("load_config",
                                  <<Call("bootstrap", "build_settings", << >>, "ok")>>)
                          /\ UNCHANGED <<config, classic, js, serialized>>
                     ELSE Raise(Error("FileError", << >>),
                                <<Call("bootstrap", "build_settings", << >>, "err")>>)
    /\ UNCHANGED <<dirs, files, outputs>>

\* As if the mode were checked as soon as it is known.
ConfigParsedChecksMode(cfg, newCalls) ==
    IF cfg.output_settings.output_mode \in {0, 1}
    THEN /\ config' = cfg
         /\ Goto("prepare_input", newCalls)
         /\ UNCHANGED <<classic, js, serialized>>
    ELSE /\ config' = cfg
         /\ pc' = "throw"
         /\ err' = Error("InvalidMode", cfg.output_settings.output_mode)
         /\ calls' = calls \o newCalls
         /\ UNCHANGED <<run, cfgAtStart, classic, js, serialized,
                        diags, prompts, acks, exit>>

\* main.rs 71-72: Ok(c) => c, and main goes on to the directories.
ConfigParsed(cfg, newCalls) ==
    /\ config' = cfg
    /\ Goto("prepare_input", newCalls)
    /\ UNCHANGED <<classic, js, serialized>>

\* main.rs 70-77: read config.toml, replace "-" by "_", parse.
LoadCfg ==
    /\ pc = "load_config"
    /\ \E r \in IoResults :
         IF r = "err" \/ ~cfgFile.present
         THEN Panic(<<Call("bootstrap", "read_to_string", <<CONFIG_PATH>>, "err")>>)
         ELSE LET res == LoadConfig(cfgFile.text)
                  rd == Call("bootstrap", "read_to_string", <<CONFIG_PATH>>, "ok")
              IN  IF res.ok
                  THEN ConfigParsed(res.config,
                                    <<rd, Call("bootstrap", "from_str", << >>, "ok")>>)
                  ELSE Raise(Error("TOMLError", << >>),
                             <<rd, Call("bootstrap", "from_str", << >>, "err")>>)
    /\ UNCHANGED fsVars

\* As if create_dir were called without asking whether the folder exists:
\* create_dir on an existing path returns Err.
EnsureDirAlwaysCreates(stage, folder, next) ==
    \E m \in IoResults :
      LET mk == Call(stage, "create_dir", <<folder>>,
                     IF PathExists(folder) THEN "err" ELSE m)
      IN  IF mk.ret = "ok"
          THEN /\ dirs' = dirs \cup {folder}
               /\ Goto(next, <<mk>>)
               /\ UNCHANGED <<config, classic, js, serialized>>
          ELSE /\ Raise(Error("FileError", << >>), <<mk>>)
               /\ UNCHANGED dirs

\* main.rs 79-81 and 82-84: create the folder unless it exists.
EnsureDir(stage, folder, next) ==
    \E r \in ExistsResults(folder) :
      LET ex == Call(stage, "exists", <<folder>>, r)
      IN  IF r = "err" THEN Panic(<<ex>>) /\ UNCHANGED dirs
          ELSE IF r = "true"
          THEN /\ Goto(next, <<ex>>)
               /\ UNCHANGED <<config, classic, js, serialized>>
               /\ UNCHANGED dirs
          ELSE \E m \in IoResults :
                 LET mk == Call(stage, "create_dir", <<folder>>, m)
                 IN  IF m = "ok"
                     THEN /\ dirs' = dirs \cup {folder}
                          /\ Goto(next, <<ex, mk>>)
                          /\ UNCHANGED <<config, classic, js, serialized>>
                     ELSE /\ Raise(Error("FileError", << >>), <<ex, mk>>)
                          /\ UNCHANGED dirs

PrepareInput ==
    /\ pc = "prepare_input"
    /\ EnsureDir("prepare_input", config.input_settings.input_folder, "prepare_output")
    /\ UNCHANGED <<cfgFile, files, outputs>>

PrepareOutput ==
    /\ pc = "prepare_output"
    /\ EnsureDir("prepare_output", config.output_settings.output_folder, "resolve")
    /\ UNCHANGED <<cfgFile, files, outputs>>

\* As if the separator were left out of the concatenation.
InputPathNoSeparator(cfg) == cfg.input_settings.input_folder \o cfg.input_settings.input_file

\* config.input_settings.input_folder.clone() + "/" + &config.input_settings.input_file
InputPath(cfg) == JoinPath(cfg.input_settings.input_folder, cfg.input_settings.input_file)

\* As if throw returned and main went on to read_level.
MissingInputGoesOn(path, newCalls) ==
    /\ err' = Error("MissingFile", path)
    /\ pc' = "load"
    /\ calls' = calls \o newCalls
    /\ UNCHANGED <<run, cfgAtStart, config, classic, js, serialized,
                   diags, prompts, acks, exit>>

\* main.rs 88: throw(GeneralError::MissingFile(folder + "/" + file))
MissingInput(path, newCalls) == Raise(Error("MissingFile", path), newCalls)

\* main.rs 86-89: the input file must exist.
Resolve ==
    /\ pc = "resolve"
    /\ \E r \in ExistsResults(InputPath(config)) :
         LET ex == <<Call("resolve", "exists", <<InputPath(config)>>, r)>>
         IN  IF r = "err" THEN Panic(ex)
             ELSE IF r = "true"
             THEN /\ Goto("load", ex)
                  /\ UNCHANGED <<config, classic, js, serialized>>
             ELSE MissingInput(InputPath(config), ex)
    /\ UNCHANGED fsVars

\* main.rs 90-96: mc_classic::read_level decodes the save file, or fails
\* on a file it cannot read or decode.
Load ==
    /\ pc = "load"
    /\ \E r \in IoResults :
         LET path == InputPath(config)
         IN  IF r = "ok" /\ path \in DOMAIN files /\ files[path] \in Worlds
             THEN /\ classic' = [level |-> files[path]]
                  /\ Goto("convert", <<Call("load", "read_level", <<path>>, "ok")>>)
                  /\ UNCHANGED <<config, js, serialized>>
             ELSE Raise(Error("ClassicError", << >>),
                        <<Call("load", "read_level", <<path>>, "err")>>)
    /\ UNCHANGED fsVars

\* As if a failed conversion were tried a second time.
ConvertRetries ==
    /\ pc = "convert"
    /\ \E r, r2 \in IoResults :
         LET first == Call("convert", "classic_to_js", <<classic, 1, 1>>, r)
             again == Call("convert", "classic_to_js", <<classic, 1, 1>>, r2)
         IN  IF r = "ok" \/ r2 = "ok"
             THEN /\ js' = [data |-> classic.level, version |-> <<1, 1>>]
                  /\ Goto("serialize", IF r = "ok" THEN <<first>> ELSE <<first, again>>)
                  /\ UNCHANGED <<config, classic, serialized>>
             ELSE Raise(Error("ConversionError", << >>), <<first, again>>)
    /\ UNCHANGED fsVars

\* main.rs 98-105: convert::classic_to_js(classic, 1, 1)
Convert ==
    /\ pc = "convert"
    /\ \E r \in IoResults :
         LET c == <<Call("convert", "classic_to_js", <<classic, 1, 1>>, r)>>
         IN  IF r = "ok"
             THEN /\ js' = [data |-> classic.level, version |-> <<1, 1>>]
                  /\ Goto("serialize", c)
                  /\ UNCHANGED <<config, classic, serialized>>
             ELSE Raise(Error("ConversionError", << >>), c)
    /\ UNCHANGED fsVars

\* mc_classic_js::serialize_data(js): the [String; 2] main receives, the
\* data payload and its companion, both made from the one Data value.
serialize_data(data) == << <<"payload", data>>, <<"metadata", data>> >>

\* main.rs 107-108
Serialize ==
    /\ pc = "serialize"
    /\ serialized' = serialize_data(js)
    /\ Goto("deliver", <<Call("serialize", "serialize_data", <<js>>, "ok")>>)
    /\ UNCHANGED <<config, classic, js>>
    /\ UNCHANGED fsVars

\* What a delivery writer that returned Ok has left on the file system.
Artifact(kind, at, origin, data) ==
    [run |-> run, kind |-> kind, at |-> at, origin |-> origin, data |-> data]

\* As if a failed storage write fell back to the script file.
DirectWriteFallsBack(out, newCalls) ==
    /\ outputs' = outputs \cup
          {Artifact("script", JoinPath(out.output_folder, out.output_file),
                    << >>, serialized)}
    /\ Goto("finish",
            newCalls \o <<Call("deliver", "write_local_storage_command",
                               <<JoinPath(out.output_folder, out.output_file),
                                 serialized>>, "ok")>>)
    /\ UNCHANGED <<config, classic, js, serialized>>

\* main.rs 116-119: Err(e) => throw(GeneralError::WriteError(e))
DirectWriteFailed(out, newCalls) ==
    /\ Raise(Error("WriteError", << >>), newCalls)
    /\ UNCHANGED outputs

\* As if every mode but 0 selected the script file.
RejectModeAsScript(out) ==
    /\ outputs' = outputs \cup
          {Artifact("script", JoinPath(out.output_folder, out.output_file),
                    << >>, serialized)}
    /\ Goto("finish",
            <<Call("deliver", "write_local_storage_command",
                   <<JoinPath(out.output_folder, out.output_file), serialized>>, "ok")>>)
    /\ UNCHANGED <<config, classic, js, serialized>>

\* main.rs 127-130: _ => throw(GeneralError::InvalidMode(output_mode))
RejectMode(out) ==
    /\ Raise(Error("InvalidMode", out.output_mode), << >>)
    /\ UNCHANGED outputs

\* As if the two strings were handed over in the other order.
DirectArgsSwapped(out, pair) ==
    <<out.output_folder, <<pair[2], pair[1]>>, out.output_website>>

\* main.rs 112-115: write_data(output_folder, serialized, output_website)
DirectArgs(out, pair) == <<out.output_folder, pair, out.output_website>>

\* main.rs 122-125: write_local_storage_command(output_folder + "/" +
\* &output_file, serialized)
ScriptArgs(out, pair) == <<JoinPath(out.output_folder, out.output_file), pair>>

\* main.rs 110-131: the match on output_mode.  What
\* write_local_storage_command returns is assigned to `_` and dropped: the
\* arm has no error path, and main goes on to the final prompt whether
\* the script file was written or not.
Deliver ==
    /\ pc = "deliver"
    /\ LET out == config.output_settings
           path == JoinPath(out.output_folder, out.output_file)
       IN  IF out.output_mode = 0
           THEN \E r \in IoResults :
                  LET c == <<Call("deliver", "write_data",
                                  DirectArgs(out, serialized), r)>>
                  IN  IF r = "ok"
                      THEN /\ outputs' = outputs \cup
                                 {Artifact("storage", out.output_folder,
                                           out.output_website, serialized)}
                           /\ Goto("finish", c)
                           /\ UNCHANGED <<config, classic, js, serialized>>
                      ELSE DirectWriteFailed(out, c)
           ELSE IF out.output_mode = 1
           THEN \E r \in IoResults :
                  /\ outputs' = IF r = "ok"
                                THEN outputs \cup
                                       {Artifact("script", path, << >>, serialized)}
                                ELSE outputs
                  /\ Goto("finish",
                          <<Call("deliver", "write_local_storage_command",
                                 ScriptArgs(out, serialized), r)>>)
                  /\ UNCHANGED <<config, classic, js, serialized>>
           ELSE RejectMode(out)
    /\ UNCHANGED <<cfgFile, dirs, files>>

\* As if the end of main left through the exit of throw.
FinishExitsLikeThrow ==
    /\ pc = "finish"
    /\ prompts' = prompts + 1
    /\ \E r \in IoResults :
         IF r = "ok"
         THEN acks' = acks + 1 /\ pc' = "exited" /\ exit' = <<1>>
         ELSE acks' = acks /\ pc' = "panicked" /\ exit' = <<101>>
    /\ UNCHANGED <<run, cfgAtStart, config, classic, js, serialized, calls, err, diags>>
    /\ UNCHANGED fsVars

\* main.rs 133-136: the final prompt; main returns once a line is read.
Finish ==
    /\ pc = "finish"
    /\ prompts' = prompts + 1
    /\ \E r \in IoResults :
         IF r = "ok"
         THEN acks' = acks + 1 /\ pc' = "exited" /\ exit' = <<0>>
         ELSE acks' = acks /\ pc' = "panicked" /\ exit' = <<101>>
    /\ UNCHANGED <<run, cfgAtStart, config, classic, js, serialized, calls, err, diags>>
    /\ UNCHANGED fsVars

\* throw (main.rs 162-168): diagnostic, prompt, one line of input, exit(1).
Throw ==
    /\ pc = "throw"
    /\ diags' = diags + 1
    /\ prompts' = prompts + 1
    /\ \E r \in IoResults :
         IF r = "ok"
         THEN acks' = acks + 1 /\ pc' = "exited" /\ exit' = <<1>>
         ELSE acks' = acks /\ pc' = "panicked" /\ exit' = <<101>>
    /\ UNCHANGED <<run, cfgAtStart, config, classic, js, serialized, calls, err>>
    /\ UNCHANGED fsVars

Ended == pc \in {"exited", "panicked"}

\* The program is started again on the file system the last run left.
StartRun ==
    /\ Ended
    /\ run < MaxRuns
    /\ ProcessStart(run + 1, cfgFile)
    /\ UNCHANGED fsVars

\* Between two runs the user puts a save file where the diagnostic of the
\* last run looked for one.
PlaceSave ==
    /\ Ended
    /\ run < MaxRuns
    /\ err.kind = "MissingFile"
    /\ err.arg \notin DOMAIN files
    /\ \E c \in Worlds \cup {Corrupt} : files' = files @@ (err.arg :> c)
    /\ UNCHANGED <<cfgFile, dirs, outputs>>
    /\ UNCHANGED procVars

Next ==
    \/ CheckConfig
    \/ BuildSettings
    \/ LoadCfg
    \/ PrepareInput
    \/ PrepareOutput
    \/ Resolve
    \/ Load
    \/ Convert
    \/ Serialize
    \/ Deliver
    \/ Finish
    \/ Throw
    \/ StartRun
    \/ PlaceSave

Spec == Init /\ [][Next]_vars

\* The run that has reached the final prompt goes on: read_line returns
\* once standard input delivers a line, reaches its end or fails.
FairSpec == Spec /\ WF_vars(Finish)

TypeOK ==
    /\ run \in 1..MaxRuns
    /\ exit \in {<< >>, <<0>>, <<1>>, <<101>>}
    /\ Ended <=> exit # << >>

\* ---------------------------------------------------------------------
\* Vocabulary of the properties.

CallsOf(op) == {i \in 1..Len(calls) : calls[i].op = op}

WriterCalls == CallsOf("write_data") \cup CallsOf("write_local_storage_command")

\* The artifacts the current run has written.
RunOutputs == {a \in outputs : a.run = run}

\* The stages of main in their order.
StageRank(stage) ==
    CASE stage = "bootstrap" -> 1
      [] stage = "prepare_input" -> 2
      [] stage = "prepare_output" -> 3
      [] stage = "resolve" -> 4
      [] stage = "load" -> 5
      [] stage = "convert" -> 6
      [] stage = "serialize" -> 7
      [] stage = "deliver" -> 8

\* The run has a configuration: from_str returned Ok.
Loaded == \E i \in CallsOf("from_str") : calls[i].ret = "ok"

\* The run has failed: an error went to throw, or the process panicked.
Failed == err # None \/ pc = "panicked"

\* The match on output_mode has been executed.
Dispatched == CallsOf("serialize_data") # {} /\ pc # "deliver"

ValidModes == {0, 1}

\* ---------------------------------------------------------------------
\* C1: the stages run in the order bootstrap, prepare input directory,
\* prepare output directory, resolve, load, convert, serialize, deliver,
\* each only after all the earlier ones were run without a failed call;
\* once a run has failed it makes no further call and writes no artifact;
\* when the loader or the converter failed no delivery writer was called
\* and the run has written no artifact.

StagesInOrder ==
    \A j \in 1..Len(calls) :
      /\ \A k \in 1..(StageRank(calls[j].stage) - 1) :
           \E i \in 1..(j - 1) : StageRank(calls[i].stage) = k
      /\ \A i \in 1..(j - 1) :
           /\ StageRank(calls[i].stage) <= StageRank(calls[j].stage)
           /\ StageRank(calls[i].stage) < StageRank(calls[j].stage)
                 => calls[i].ret # "err"

NoDeliveryAfterLoadFailure ==
    err.kind \in {"ClassicError", "ConversionError"}
        => WriterCalls = {} /\ RunOutputs = {}

C1_StagesInOrderFailFast ==
    /\ [](StagesInOrder /\ NoDeliveryAfterLoadFailure)
    /\ [][(Failed /\ run' = run) => (calls' = calls /\ outputs' = outputs)]_vars

C1_Witness ==
    /\ pc = "exited"
    /\ err.kind = "ClassicError"
    /\ CallsOf("read_level") # {}
    /\ CallsOf("classic_to_js") = {}

\* ---------------------------------------------------------------------
\* C2: the process exits with status 0 only if every stage succeeded,
\* delivery included: no call of the run returned an error and a delivery
\* writer returned Ok.

C2_ExitZeroOnlyOnCompletion ==
    exit = <<0>> =>
        /\ \A i \in 1..Len(calls) : calls[i].ret # "err"
        /\ \E i \in WriterCalls : calls[i].ret = "ok"

\* ---------------------------------------------------------------------
\* C3: every fatal failure ends the run the same way: one diagnostic, one
\* prompt, one line read, exit status 1.  The fatal failures are an error
\* handed to throw and an Err from an existence check, from reading
\* config.toml or from opening it for creation.

FatalFailure ==
    \/ err # None
    \/ \E i \in 1..Len(calls) :
         calls[i].ret = "err" /\ calls[i].op \in {"exists", "read_to_string", "open"}

C3_UniformFailure ==
    (Ended /\ FatalFailure) =>
        diags = 1 /\ prompts = 1 /\ acks = 1 /\ exit = <<1>>

\* ---------------------------------------------------------------------
\* C4: when the existence check of input_folder + "/" + input_file answers
\* false, the run fails with MissingFile carrying exactly that path and
\* read_level is never called; read_level is called only with the path
\* the check found to exist.

ConfiguredInputPath ==
    config.input_settings.input_folder \o <<SLASH>> \o config.input_settings.input_file

C4_MissingFileBeforeLoader ==
    /\ \A i \in 1..Len(calls) :
         (calls[i].stage = "resolve" /\ calls[i].ret = "false") =>
            /\ calls[i].args = <<ConfiguredInputPath>>
            /\ err = Error("MissingFile", ConfiguredInputPath)
            /\ CallsOf("read_level") = {}
            /\ pc \in {"throw", "exited", "panicked"}
            /\ pc = "exited" => exit = <<1>>
    /\ err.kind = "MissingFile" =>
         \E i \in 1..Len(calls) : calls[i].stage = "resolve" /\ calls[i].ret = "false"
    /\ \A i \in CallsOf("read_level") :
         /\ calls[i].args = <<ConfiguredInputPath>>
         /\ \E j \in 1..(i - 1) :
              calls[j] = Call("resolve", "exists", <<ConfiguredInputPath>>, "true")

C4_Witness ==
    /\ pc = "exited"
    /\ err = Error("MissingFile", <<"my", UNDERSCORE, "worlds", SLASH, "level.dat">>)
    /\ exit = <<1>>

\* ---------------------------------------------------------------------
\* C5: with an output_mode outside {0, 1} the dispatch fails with
\* InvalidMode carrying that value, no delivery writer is called, the run
\* writes no artifact, and the process exits with status 1 once the
\* acknowledgment line is read.

C5_InvalidModeRejected ==
    (Loaded /\ Dispatched /\ config.output_settings.output_mode \notin ValidModes) =>
        /\ err = Error("InvalidMode", config.output_settings.output_mode)
        /\ WriterCalls = {}
        /\ RunOutputs = {}
        /\ pc \in {"throw", "exited", "panicked"}
        /\ pc = "exited" => exit = <<1>>

C5_Witness ==
    /\ pc = "exited"
    /\ exit = <<1>>
    /\ err = Error("InvalidMode", 255)
    /\ config.output_settings.output_mode = 255

\* ---------------------------------------------------------------------
\* C6, as the claim states it: a run whose output_mode is outside {0, 1}
\* is rejected with InvalidMode before the loader, the converter and the
\* serializer are called.

C6_RejectedBeforeLoading ==
    err.kind = "InvalidMode" =>
        CallsOf("read_level") \cup CallsOf("classic_to_js")
            \cup CallsOf("serialize_data") = {}

\* C6, amended: the mode is checked only at dispatch.  A run whose
\* output_mode is outside {0, 1} goes on through both directory
\* preparations, the input check, the loader, the converter and the
\* serializer, and is rejected with InvalidMode exactly when the
\* serializer has returned, before any delivery writer is called.

C6_RejectedAtDispatch ==
    (Loaded /\ config.output_settings.output_mode \notin ValidModes) =>
        /\ err.kind = "InvalidMode" <=> Dispatched
        /\ err.kind = "InvalidMode" =>
             /\ \E i \in CallsOf("read_level") : \E j \in CallsOf("classic_to_js") :
                  \E k \in CallsOf("serialize_data") :
                    /\ i < j /\ j < k
                    /\ calls[i].ret = "ok" /\ calls[j].ret = "ok"
             /\ WriterCalls = {}

C6_Witness ==
    /\ err = Error("InvalidMode", 2)
    /\ CallsOf("serialize_data") # {}
    /\ pc = "exited"

\* ---------------------------------------------------------------------
\* C7: a run that has executed the dispatch took exactly one of the three
\* branches, the one its output_mode selects; a writer is called only
\* after serialize_data returned, at most once, and with the pair of
\* strings serialize_data returned as one argument; the artifacts of a run
\* are all of the kind of its mode.

BranchesTaken ==
    Cardinality(CallsOf("write_data"))
        + Cardinality(CallsOf("write_local_storage_command"))
        + (IF err.kind = "InvalidMode" THEN 1 ELSE 0)

C7_OneDeliveryBranch ==
    /\ ~Dispatched => WriterCalls = {} /\ RunOutputs = {} /\ err.kind # "InvalidMode"
    /\ Dispatched =>
         /\ BranchesTaken = 1
         /\ CallsOf("write_data") # {} <=> config.output_settings.output_mode = 0
         /\ CallsOf("write_local_storage_command") # {}
               <=> config.output_settings.output_mode = 1
         /\ \A i \in WriterCalls :
              /\ \E j \in CallsOf("serialize_data") : j < i
              /\ calls[i].args[2] = serialized
              /\ Len(serialized) = 2
         /\ \A a \in RunOutputs :
              /\ a.data = serialized
              /\ a.kind = (IF config.output_settings.output_mode = 0
                           THEN "storage" ELSE "script")

C7_Witness ==
    /\ pc = "exited"
    /\ exit = <<0>>
    /\ config.output_settings.output_mode = 1
    /\ \E a \in RunOutputs : a.kind = "script"
    /\ \E a \in outputs : a.run # run /\ a.kind = "script"

\* ---------------------------------------------------------------------
\* C8: a config.toml that exists when a run starts is never changed by
\* the run; when none exists and build_settings has returned Ok,
\* config.toml holds the default payload.

C8_BootstrapIdempotent ==
    /\ cfgAtStart.present => cfgFile = cfgAtStart
    /\ (~cfgAtStart.present
          /\ \E i \in CallsOf("build_settings") : calls[i].ret = "ok")
         => cfgFile = File(DefaultPayload)

\* ---------------------------------------------------------------------
\* C9: two configuration files that differ only in spelling the
\* separators of their section and key names "-" or "_" load to the same
\* result, the same six field values or a parse error for both: what a
\* run makes of config.toml is what loading gives for the same text with
\* every such separator spelled "_", and with every one spelled "-".

\* The positions of the text that belong to a section or key name and
\* hold a separator: those with no "=" before them on their line.
KeySeparators(text) ==
    {i \in 1..Len(text) :
        /\ text[i] \in {HYPHEN, UNDERSCORE}
        /\ \A j \in 1..(i - 1) :
             text[j] = EQUALS => \E k \in (j + 1)..(i - 1) : text[k] = NL}

\* The text with every separator of its section and key names spelled `sep`.
Respelled(text, sep) ==
    LET K == KeySeparators(text)
    IN  [i \in 1..Len(text) |-> IF i \in K THEN sep ELSE text[i]]

\* What the run made of config.toml.
LoadResult == IF Loaded THEN [ok |-> TRUE, config |-> config] ELSE ParseError

C9_SpellingsEquivalent ==
    (CallsOf("from_str") # {} /\ pc \in {"prepare_input", "throw"}) =>
        /\ LoadConfig(Respelled(cfgFile.text, UNDERSCORE)) = LoadResult
        /\ LoadConfig(Respelled(cfgFile.text, HYPHEN)) = LoadResult

\* A file with hyphens in its section names and underscores in its keys
\* has been loaded.
C9_Witness ==
    /\ pc = "prepare_input"
    /\ cfgFile.text \in WellFormedTexts
    /\ cfgFile.text[3] = HYPHEN
    /\ cfgFile.text[8] = UNDERSCORE
    /\ Respelled(cfgFile.text, UNDERSCORE) # cfgFile.text
    /\ Respelled(cfgFile.text, HYPHEN) # cfgFile.text
    /\ config.input_settings.input_folder = INPUT_FOLDER

\* ---------------------------------------------------------------------
\* C10: the normalization touches keys only: every string field of the
\* loaded configuration equals the value written in config.toml, and the
\* origin handed to write_data is the output website as written.

\* The value written for `key` in table `tab`, in either spelling of the
\* two names.
WrittenValue(text, tab, key) ==
    LET doc == ReadDoc(EmptyDoc, SplitLines(text))
        e == CHOOSE x \in doc.entries :
                 /\ replace(x.tab, HYPHEN, UNDERSCORE) = tab
                 /\ replace(x.key, HYPHEN, UNDERSCORE) = key
    IN  e.val.s

C10_ValuesAsWritten ==
    Loaded =>
        LET inp == Name2("input", "settings")
            out == Name2("output", "settings")
            text == cfgFile.text
        IN  /\ config.input_settings.input_folder
                 = WrittenValue(text, inp, Name2("input", "folder"))
            /\ config.input_settings.input_file
                 = WrittenValue(text, inp, Name2("input", "file"))
            /\ config.output_settings.output_folder
                 = WrittenValue(text, out, Name2("output", "folder"))
            /\ config.output_settings.output_file
                 = WrittenValue(text, out, Name2("output", "file"))
            /\ config.output_settings.output_website
                 = WrittenValue(text, out, Name2("output", "website"))
            /\ \A i \in CallsOf("write_data") :
                 calls[i].args[3] = WrittenValue(text, out, Name2("output", "website"))

\* ---------------------------------------------------------------------
\* C11: a run in which every stage succeeded (no call returned an error,
\* the mode is 0 or 1 and its delivery writer returned Ok) eventually ends
\* having printed the final prompt once and no diagnostic, and having
\* called the delivery writer of the configured mode exactly once; once
\* the line of input is read it has exited with status 0.

\* The writer that belongs to the configured mode.
WriterOfMode == IF config.output_settings.output_mode = 0
                THEN "write_data" ELSE "write_local_storage_command"

EveryStageSucceeded ==
    /\ Dispatched
    /\ err = None
    /\ \A i \in 1..Len(calls) : calls[i].ret # "err"
    /\ \E i \in WriterCalls : calls[i].ret = "ok"

DeliveredOnce ==
    /\ config.output_settings.output_mode \in ValidModes
    /\ Cardinality(WriterCalls) = 1
    /\ WriterCalls = CallsOf(WriterOfMode)

FinishedOnce ==
    /\ Ended
    /\ prompts = 1
    /\ diags = 0
    /\ pc = "exited" => acks = 1 /\ exit = <<0>>

C11_SuccessfulRunFinishes ==
    /\ (EveryStageSucceeded /\ pc = "finish") ~> (EveryStageSucceeded /\ FinishedOnce)
    /\ [](EveryStageSucceeded =>
            /\ DeliveredOnce
            /\ IF Ended THEN FinishedOnce ELSE prompts = 0 /\ diags = 0 /\ acks = 0)

\* A script mode run has exited after its one line of input.
C11_Witness ==
    /\ EveryStageSucceeded
    /\ pc = "exited"
    /\ exit = <<0>>
    /\ config.output_settings.output_mode = 1
    /\ acks = 1

\* ---------------------------------------------------------------------
\* C12: the directory ensure creates a folder only when the existence
\* check just answered false for it; on a folder that exists it makes no
\* create_dir call, raises no error and leaves the directories alone, so
\* no folder is created twice, within a run (input_folder = output_folder
\* included) or over several runs; both folders are ensured, input first,
\* before the input file is checked and before any writer is called.

PrepareStages == {"prepare_input", "prepare_output"}

\* create_dir is called only right after exists answered false for the
\* same folder in the same stage.
CreateOnlyIfAbsent ==
    \A i \in CallsOf("create_dir") :
      /\ i > 1
      /\ calls[i - 1].op = "exists"
      /\ calls[i - 1].ret = "false"
      /\ calls[i - 1].stage = calls[i].stage
      /\ calls[i - 1].args = calls[i].args
      /\ calls[i].stage \in PrepareStages

\* An ensure that found its folder is over: no creation, no error.
ExistingIsNoOp ==
    \A i \in CallsOf("exists") :
      (calls[i].stage \in PrepareStages /\ calls[i].ret = "true") =>
          IF i = Len(calls)
          THEN err = None /\ pc \in {"prepare_output", "resolve"}
          ELSE /\ calls[i + 1].op # "create_dir"
               /\ calls[i + 1].stage # calls[i].stage

CreatedAtMostOnce ==
    \A i, j \in CallsOf("create_dir") : calls[i].args = calls[j].args => i = j

\* The ensure of `folder` in `stage` is the call at index i.
IsEnsure(i, stage, folder) ==
    /\ calls[i].stage = stage
    /\ calls[i].op = "exists"
    /\ calls[i].args = <<folder>>

EnsuredBeforeUse ==
    \A j \in 1..Len(calls) :
      StageRank(calls[j].stage) >= StageRank("resolve") =>
          \E i, k \in 1..(j - 1) :
            /\ i < k
            /\ IsEnsure(i, "prepare_input", config.input_settings.input_folder)
            /\ IsEnsure(k, "prepare_output", config.output_settings.output_folder)

\* A step creates at most one directory, one that did not exist, and
\* logs the create_dir call that made it; no directory disappears.
CreatesOnlyNew ==
    /\ dirs \subseteq dirs'
    /\ \A i \in (Len(calls) + 1)..Len(calls') :
         calls'[i].op = "create_dir" =>
             /\ calls'[i].args[1] \notin dirs
             /\ calls'[i].ret = "ok" => dirs' = dirs \cup {calls'[i].args[1]}
             /\ calls'[i].ret = "err" => dirs' = dirs
    /\ dirs' # dirs =>
         /\ Len(calls') > Len(calls)
         /\ calls'[Len(calls')].op = "create_dir"

C12_EnsureIdempotent ==
    /\ [](CreateOnlyIfAbsent /\ ExistingIsNoOp /\ CreatedAtMostOnce /\ EnsuredBeforeUse)
    /\ [][CreatesOnlyNew]_vars

\* One folder serves as input and output folder: the first ensure created
\* it, the second found it, and the run goes on to the input file.
C12_Witness ==
    /\ CallsOf("exists") # {}
    /\ \E i, k \in CallsOf("exists") :
         /\ calls[i].stage = "prepare_input"
         /\ calls[k].stage = "prepare_output"
         /\ calls[i].args = calls[k].args
         /\ calls[i].ret = "false"
         /\ calls[k].ret = "true"
    /\ Cardinality(CallsOf("create_dir")) = 1
    /\ pc = "resolve"

\* ---------------------------------------------------------------------
\* C13: a run started without config.toml goes on with the defaults:
\* once build_settings has returned Ok and the file it wrote has been
\* read, normalized and parsed, the parse succeeded and the active
\* configuration is the six default values.

DefaultConfig ==
    [input_settings |->
        [input_folder |-> INPUT_FOLDER,
         input_file |-> INPUT_FILE],
     output_settings |->
        [output_mode |-> OUTPUT_MODE,
         output_folder |-> OUTPUT_FOLDER,
         output_file |-> OUTPUT_FILE,
         output_website |-> OUTPUT_WEBSITE]]

C13_DefaultsWhenAbsent ==
    ( /\ ~cfgAtStart.present
      /\ \E i \in CallsOf("build_settings") : calls[i].ret = "ok"
      /\ CallsOf("from_str") # {} )
        => Loaded /\ config = DefaultConfig

\* ---------------------------------------------------------------------
\* C14: no stage is retried: in a run read_level, classic_to_js and
\* serialize_data are each called at most once and the two delivery
\* writers together at most once; classic_to_js is called with the
\* versions 1 and 1; the world read_level returned is the argument of the
\* one classic_to_js call and of no other call, and the model
\* classic_to_js returned is the argument of the one serialize_data call
\* and of no other call.

AtMostOnce(op) == Cardinality(CallsOf(op)) <= 1

\* The calls that were handed the value v: classic_to_js and
\* serialize_data are the calls that take a world or a model.
ConsumersOf(v) ==
    {i \in CallsOf("classic_to_js") \cup CallsOf("serialize_data") :
        calls[i].args[1] = v}

C14_NoStageRetried ==
    /\ AtMostOnce("read_level")
    /\ AtMostOnce("classic_to_js")
    /\ AtMostOnce("serialize_data")
    /\ Cardinality(WriterCalls) <= 1
    /\ \A i \in CallsOf("classic_to_js") :
         /\ Len(calls[i].args) = 3
         /\ calls[i].args[2] = 1
         /\ calls[i].args[3] = 1
    /\ (classic # None /\ pc # "convert") =>
         /\ Cardinality(ConsumersOf(classic)) = 1
         /\ ConsumersOf(classic) = CallsOf("classic_to_js")
         /\ \A i \in CallsOf("classic_to_js") : calls[i].args[1] = classic
    /\ (classic # None /\ pc = "convert") => ConsumersOf(classic) = {}
    /\ (js # None /\ pc # "serialize") =>
         /\ Cardinality(ConsumersOf(js)) = 1
         /\ ConsumersOf(js) = CallsOf("serialize_data")
         /\ \A i \in CallsOf("serialize_data") : calls[i].args = <<js>>
    /\ (js # None /\ pc = "serialize") => ConsumersOf(js) = {}

\* A run has gone through the four stages once each and has exited.
C14_Witness ==
    /\ pc = "exited"
    /\ Cardinality(CallsOf("read_level")) = 1
    /\ Cardinality(CallsOf("classic_to_js")) = 1
    /\ Cardinality(CallsOf("serialize_data")) = 1
    /\ Cardinality(WriterCalls) = 1
    /\ classic # None
    /\ js # None

\* ---------------------------------------------------------------------
\* C15: a delivery writer is handed the pair serialize_data returned, the
\* payload first and the metadata second, unchanged: write_data is called
\* in mode 0 with (output_folder, pair, output_website), and
\* write_local_storage_command in mode 1 with
\* (output_folder + "/" + output_file, pair).

\* What the one serialize_data call of the run returned.
SerializerReturned == serialize_data(js)

C15_WriterGetsSerializedPair ==
    LET out == config.output_settings
    IN  /\ \A i \in WriterCalls :
             /\ CallsOf("serialize_data") # {}
             /\ serialized = SerializerReturned
             /\ Len(SerializerReturned) = 2
             /\ SerializerReturned[1][1] = "payload"
             /\ SerializerReturned[2][1] = "metadata"
        /\ \A i \in CallsOf("write_data") :
             /\ out.output_mode = 0
             /\ calls[i].args
                  = <<out.output_folder, SerializerReturned, out.output_website>>
        /\ \A i \in CallsOf("write_local_storage_command") :
             /\ out.output_mode = 1
             /\ calls[i].args
                  = <<out.output_folder \o <<SLASH>> \o out.output_file,
                      SerializerReturned>>

\* write_data has been called by a run whose output folder is not the
\* default one.
C15_Witness ==
    /\ pc = "finish"
    /\ \E i \in CallsOf("write_data") : calls[i].args[1] = INPUT_FOLDER
    /\ config.output_settings.output_folder # OUTPUT_FOLDER

\* ---------------------------------------------------------------------
\* C16: a first run started without config.toml and without folders, in
\* which no file system call returned Err and the line of input was read,
\* ends with MissingFile("input/level.dat") and exit status 1 without
\* calling read_level, and leaves config.toml holding the default payload
\* and the directories input and output; a later run that finds those
\* and input/level.dat gets past the input check to read_level without
\* calling build_settings or create_dir.

\* The directories that existed when the run started.
DirsAtStart ==
    dirs \ {calls[i].args[1] : i \in {k \in CallsOf("create_dir") : calls[k].ret = "ok"}}

\* The file system refused a call, or standard input failed.
EnvironmentFailed ==
    \/ pc = "panicked"
    \/ \E i \in 1..Len(calls) :
         /\ calls[i].ret = "err"
         /\ calls[i].op \in {"exists", "open", "read_to_string", "create_dir",
                              "build_settings"}

DefaultInputPath == JoinPath(INPUT_FOLDER, INPUT_FILE)

FirstRunOutcome ==
    ( /\ run = 1
      /\ ~cfgAtStart.present
      /\ DirsAtStart = {}
      /\ Ended
      /\ ~EnvironmentFailed )
        => /\ err = Error("MissingFile", DefaultInputPath)
           /\ exit = <<1>>
           /\ CallsOf("read_level") = {}
           /\ cfgFile = File(DefaultPayload)
           /\ dirs = {INPUT_FOLDER, OUTPUT_FOLDER}

SecondRunOutcome ==
    ( /\ run > 1
      /\ cfgAtStart = File(DefaultPayload)
      /\ DirsAtStart = {INPUT_FOLDER, OUTPUT_FOLDER}
      /\ DefaultInputPath \in DOMAIN files
      /\ ~EnvironmentFailed
      /\ pc \notin {"check_config", "build_settings", "load_config",
                     "prepare_input", "prepare_output", "resolve"} )
        => /\ pc = "load" \/ CallsOf("read_level") # {}
           /\ \A i \in CallsOf("read_level") : calls[i].args = <<DefaultInputPath>>
           /\ CallsOf("build_settings") = {}
           /\ CallsOf("create_dir") = {}
           /\ cfgFile = cfgAtStart
           /\ dirs = DirsAtStart
           /\ err.kind # "MissingFile"

C16_FirstThenSecondRun == FirstRunOutcome /\ SecondRunOutcome
====
